---- MODULE Spec2Model ----
(***************************************************************************)
(* Bounded-buffer producer/consumer of Proyecto1.cpp.                      *)
(*                                                                         *)
(* One Buffer (a FIFO queue guarded by the binary semaphore buffer_mutex   *)
(* and counted by the semaphores spaces and items), NP producer threads,   *)
(* NC consumer threads and the coordinator thread (Principal::run).        *)
(* Every thread is a small program-counter machine; one action is one      *)
(* statement (or one semaphore operation) of the source.  Time is not      *)
(* modelled: a timed wait on a semaphore may give up exactly when the      *)
(* counter is 0, and sleeps only delay.                                    *)
(*                                                                         *)
(* Statements that touch only a thread's own locals (loop tests, ++i,      *)
(* sleeps, return) are taken together with the shared operation before     *)
(* them.                                                                   *)
(*                                                                         *)
(* logProduced and logConsumed are the "produjo" and the "consumio" lines  *)
(* of producer-consumer.txt, each in file order; produced, consumed, got   *)
(* and timeouts are history variables (items in push order, items in pop   *)
(* order, items returned to each consumer, timed-out calls per consumer).  *)
(***************************************************************************)
EXTENDS Integers, Sequences, FiniteSets

\* Bound of the explored configurations: capacity + N + NP + NC <= MaxSize.
MaxSize == 6
\* Largest value one parameter takes when the three others are 1.
MaxParam == MaxSize - 3
\* The same bound for the specification whose liveness is checked on every run.
MaxLiveSize == 5
MaxLiveParam == MaxLiveSize - 3

\* Empty sentinel returned by consume on timeout (line 81).
Empty == -1
\* Multiplier of the producer id in an item value (line 135).
ItemBase == 100

NoThread == <<"none", 0>>
MainThread == <<"M", 0>>
ProducerThread(p) == <<"P", p>>
ConsumerThread(c) == <<"C", c>>
NoSnapshot == <<Empty>>

VARIABLES
    capacity, N, NP, NC,   \* the four command-line parameters
    buffer,                \* queue<int> buffer
    buffer_mutex,          \* counting_semaphore<1> buffer_mutex
    spaces,                \* counting_semaphore<> spaces
    items,                 \* counting_semaphore<> items
    print_mutex,           \* thread that holds std::mutex print_mutex, or NoThread
    pcP, iP,               \* producers: position, loop index i
    pcC, iC, itemC,        \* consumers: position, loop index i, local item of consume
    mainpc, mainIdx,       \* coordinator: position, loop index
    produced, consumed,    \* history: items in push order / in pop order
    got, timeouts,         \* history: per consumer, items returned / calls that returned -1
    logProduced,           \* items of the "produjo" messages, in log order
    logConsumed,           \* items of the "consumio" messages, in log order
    snapshot               \* items reported by showRemainingItems, or NoSnapshot

config == <<capacity, N, NP, NC>>
sems == <<buffer_mutex, spaces, items>>
prodVars == <<pcP, iP>>
consVars == <<pcC, iC, itemC>>
mainVars == <<mainpc, mainIdx>>
hist == <<produced, consumed, got, timeouts>>
log == <<logProduced, logConsumed>>
vars == <<capacity, N, NP, NC, buffer, buffer_mutex, spaces, items, print_mutex,
          pcP, iP, pcC, iC, itemC, mainpc, mainIdx, produced, consumed, got,
          timeouts, logProduced, logConsumed, snapshot>>

Producers == 1..NP
Consumers == 1..NC

\* main: the four arguments, all positive (lines 228-237).
ValidConfig(cap, n, np, nc) == cap > 0 /\ n > 0 /\ np > 0 /\ nc > 0

\* State when Principal::run is entered: Buffer(capacity) constructed, no thread created.
InitWith(cap, n, np, nc) ==
    /\ ValidConfig(cap, n, np, nc)
    /\ capacity = cap /\ N = n /\ NP = np /\ NC = nc
    /\ buffer = <<>>
    /\ buffer_mutex = 1
    /\ spaces = cap
    /\ items = 0
    /\ print_mutex = NoThread
    /\ pcP = [p \in 1..np |-> "unstarted"]
    /\ iP = [p \in 1..np |-> 0]
    /\ pcC = [c \in 1..nc |-> "unstarted"]
    /\ iC = [c \in 1..nc |-> 0]
    /\ itemC = [c \in 1..nc |-> Empty]
    /\ mainpc = "m_spawnP" /\ mainIdx = 0
    /\ produced = <<>> /\ consumed = <<>>
    /\ got = [c \in 1..nc |-> <<>>]
    /\ timeouts = [c \in 1..nc |-> 0]
    /\ logProduced = <<>> /\ logConsumed = <<>>
    /\ snapshot = NoSnapshot

Init ==
    \E cap \in 1..MaxParam, n \in 1..MaxParam, np \in 1..MaxParam, nc \in 1..MaxParam :
        /\ cap + n + np + nc <= MaxSize
        /\ InitWith(cap, n, np, nc)

----------------------------------------------------------------------------
\* lock_guard on print_mutex (lines 26, 44, 51): taken, and released at scope exit.
LockPrint(t) == print_mutex = NoThread /\ print_mutex' = t
\* Variant of UnlockPrint: print_mutex is not released at scope exit.
UnlockPrint_Keep(t) == print_mutex = t /\ UNCHANGED print_mutex
UnlockPrint(t) == print_mutex = t /\ print_mutex' = NoThread

\* Semaphore operations (std::counting_semaphore).
CanAcquire(s) == s > 0
Acquired(s) == s - 1
Released(s) == s + 1

\* Item value of producer id at loop index i (line 135).
Item(id, i) == id * ItemBase + i

\* Variant of ProducerLoop: the loop stops one iteration early.
ProducerLoop_Short(i) == IF i + 1 < N THEN "p_try" ELSE "p_finished"
\* Variant of ConsumerLoop: the loop runs one iteration too many.
ConsumerLoop_OffByOne(i) == IF i <= N THEN "c_try" ELSE "c_finished"
\* for (...; i < N; ...) of a producer (line 134) and of a consumer (line 167).
ProducerLoop(i) == IF i < N THEN "p_try" ELSE "p_finished"
ConsumerLoop(i) == IF i < N THEN "c_try" ELSE "c_finished"

----------------------------------------------------------------------------
\* Producer::operator() and Buffer::produce

\* lines 127-131, then the first loop test
ProducerCreated(p) ==
    /\ pcP[p] = "p_created"
    /\ \/ LockPrint(ProducerThread(p)) /\ UNCHANGED pcP
       \/ UnlockPrint(ProducerThread(p)) /\ pcP' = [pcP EXCEPT ![p] = ProducerLoop(iP[p])]
    /\ UNCHANGED <<config, buffer, sems, iP, consVars, mainVars, hist, log, snapshot>>

\* Variant of ProduceTryAcquire: goes on without taking a unit of spaces.
ProduceTryAcquire_NoDecrement(p) ==
    /\ pcP[p] = "p_try"
    /\ CanAcquire(spaces)
    /\ pcP' = [pcP EXCEPT ![p] = "p_lock"]
    /\ UNCHANGED <<config, buffer, sems, print_mutex, iP, consVars, mainVars, hist,
                   log, snapshot>>

\* line 60, try_acquire_for succeeds
ProduceTryAcquire(p) ==
    /\ pcP[p] = "p_try"
    /\ CanAcquire(spaces)
    /\ spaces' = Acquired(spaces)
    /\ pcP' = [pcP EXCEPT ![p] = "p_lock"]
    /\ UNCHANGED <<config, buffer, buffer_mutex, items, print_mutex, iP, consVars,
                   mainVars, hist, log, snapshot>>

\* Variant of ProduceTimeout: the producer abandons the item after a failed wait.
ProduceTimeout_GiveUp(p) ==
    /\ pcP[p] = "p_try"
    /\ ~CanAcquire(spaces)
    /\ iP' = [iP EXCEPT ![p] = @ + 1]
    /\ pcP' = [pcP EXCEPT ![p] = ProducerLoop(iP[p] + 1)]
    /\ UNCHANGED <<config, buffer, sems, print_mutex, consVars, mainVars, hist, log,
                   snapshot>>

\* line 60, try_acquire_for gives up after PRODUCER_RETRY_DELAY_MS
ProduceTimeout(p) ==
    /\ pcP[p] = "p_try"
    /\ ~CanAcquire(spaces)
    /\ pcP' = [pcP EXCEPT ![p] = "p_wait"]
    /\ UNCHANGED <<config, buffer, sems, print_mutex, iP, consVars, mainVars, hist,
                   log, snapshot>>

\* line 61 (lines 43-47), then back to the top of while (true)
NotifyProducerWait(p) ==
    /\ pcP[p] = "p_wait"
    /\ \/ LockPrint(ProducerThread(p)) /\ UNCHANGED pcP
       \/ UnlockPrint(ProducerThread(p)) /\ pcP' = [pcP EXCEPT ![p] = "p_try"]
    /\ UNCHANGED <<config, buffer, sems, iP, consVars, mainVars, hist, log, snapshot>>

\* Variant of ProduceLock: enters the critical section without acquiring buffer_mutex.
ProduceLock_Skip(p) ==
    /\ pcP[p] = "p_lock"
    /\ pcP' = [pcP EXCEPT ![p] = "p_push"]
    /\ UNCHANGED <<config, buffer, sems, print_mutex, iP, consVars, mainVars, hist,
                   log, snapshot>>

\* line 63
ProduceLock(p) ==
    /\ pcP[p] = "p_lock"
    /\ CanAcquire(buffer_mutex)
    /\ buffer_mutex' = Acquired(buffer_mutex)
    /\ pcP' = [pcP EXCEPT ![p] = "p_push"]
    /\ UNCHANGED <<config, buffer, spaces, items, print_mutex, iP, consVars, mainVars,
                   hist, log, snapshot>>

\* Variant of Push: inserts at the front.
Push_Front(q, x) == <<x>> \o q
\* buffer.push(item)
Push(q, x) == Append(q, x)

\* Variant of ProducePush: items is released inside the critical section.
ProducePush_Signals(p) ==
    /\ pcP[p] = "p_push"
    /\ buffer' = Push(buffer, Item(p, iP[p]))
    /\ produced' = Append(produced, Item(p, iP[p]))
    /\ items' = Released(items)
    /\ pcP' = [pcP EXCEPT ![p] = "p_print"]
    /\ UNCHANGED <<config, buffer_mutex, spaces, print_mutex, iP, consVars, mainVars,
                   consumed, got, timeouts, log, snapshot>>

\* Variant of ProducePush: buffer_mutex is released right after the push, before the
\* message is written.
ProducePush_EarlyUnlock(p) ==
    /\ pcP[p] = "p_push"
    /\ buffer' = Push(buffer, Item(p, iP[p]))
    /\ produced' = Append(produced, Item(p, iP[p]))
    /\ buffer_mutex' = Released(buffer_mutex)
    /\ pcP' = [pcP EXCEPT ![p] = "p_print"]
    /\ UNCHANGED <<config, spaces, items, print_mutex, iP, consVars, mainVars,
                   consumed, got, timeouts, log, snapshot>>

\* line 64
ProducePush(p) ==
    /\ pcP[p] = "p_push"
    /\ buffer' = Push(buffer, Item(p, iP[p]))
    /\ produced' = Append(produced, Item(p, iP[p]))
    /\ pcP' = [pcP EXCEPT ![p] = "p_print"]
    /\ UNCHANGED <<config, sems, print_mutex, iP, consVars, mainVars, consumed, got,
                   timeouts, log, snapshot>>

\* lines 65-68
ProducePrint(p) ==
    /\ pcP[p] = "p_print"
    /\ \/ LockPrint(ProducerThread(p)) /\ UNCHANGED <<pcP, logProduced>>
       \/ /\ UnlockPrint(ProducerThread(p))
          /\ logProduced' = Append(logProduced, Item(p, iP[p]))
          /\ pcP' = [pcP EXCEPT ![p] = "p_unlock"]
    /\ UNCHANGED <<config, buffer, sems, iP, consVars, mainVars, hist, logConsumed,
                   snapshot>>

\* line 69
ProduceUnlock(p) ==
    /\ pcP[p] = "p_unlock"
    /\ buffer_mutex' = Released(buffer_mutex)
    /\ pcP' = [pcP EXCEPT ![p] = "p_signal"]
    /\ UNCHANGED <<config, buffer, spaces, items, print_mutex, iP, consVars, mainVars,
                   hist, log, snapshot>>

\* Variant of ProduceSignal: two units of items are released for one item.
ProduceSignal_Twice(p) ==
    /\ pcP[p] = "p_signal"
    /\ items' = Released(Released(items))
    /\ iP' = [iP EXCEPT ![p] = @ + 1]
    /\ pcP' = [pcP EXCEPT ![p] = ProducerLoop(iP[p] + 1)]
    /\ UNCHANGED <<config, buffer, buffer_mutex, spaces, print_mutex, consVars,
                   mainVars, hist, log, snapshot>>

\* lines 70-71, then the sleep, ++i and the loop test of lines 134-137
ProduceSignal(p) ==
    /\ pcP[p] = "p_signal"
    /\ items' = Released(items)
    /\ iP' = [iP EXCEPT ![p] = @ + 1]
    /\ pcP' = [pcP EXCEPT ![p] = ProducerLoop(iP[p] + 1)]
    /\ UNCHANGED <<config, buffer, buffer_mutex, spaces, print_mutex, consVars,
                   mainVars, hist, log, snapshot>>

\* lines 140-144, then the thread function returns
ProducerFinished(p) ==
    /\ pcP[p] = "p_finished"
    /\ \/ LockPrint(ProducerThread(p)) /\ UNCHANGED pcP
       \/ UnlockPrint(ProducerThread(p)) /\ pcP' = [pcP EXCEPT ![p] = "done"]
    /\ UNCHANGED <<config, buffer, sems, iP, consVars, mainVars, hist, log, snapshot>>

ProducerStep(p) ==
  p \in Producers /\
  ( \/ ProducerCreated(p)
    \/ ProduceTryAcquire(p)
    \/ ProduceTimeout(p)
    \/ NotifyProducerWait(p)
    \/ ProduceLock(p)
    \/ ProducePush(p)
    \/ ProducePrint(p)
    \/ ProduceUnlock(p)
    \/ ProduceSignal(p)
    \/ ProducerFinished(p) )

----------------------------------------------------------------------------
\* Consumer::operator() and Buffer::consume

\* lines 160-164, then the first loop test
ConsumerCreated(c) ==
    /\ pcC[c] = "c_created"
    /\ \/ LockPrint(ConsumerThread(c)) /\ UNCHANGED pcC
       \/ UnlockPrint(ConsumerThread(c)) /\ pcC' = [pcC EXCEPT ![c] = ConsumerLoop(iC[c])]
    /\ UNCHANGED <<config, buffer, sems, prodVars, iC, itemC, mainVars, hist, log,
                   snapshot>>

\* Variant of ConsumeTryAcquire: goes on without taking a unit of items.
ConsumeTryAcquire_NoDecrement(c) ==
    /\ pcC[c] = "c_try"
    /\ CanAcquire(items)
    /\ pcC' = [pcC EXCEPT ![c] = "c_lock"]
    /\ UNCHANGED <<config, buffer, sems, print_mutex, prodVars, iC, itemC, mainVars,
                   hist, log, snapshot>>

\* line 79, try_acquire_for succeeds
ConsumeTryAcquire(c) ==
    /\ pcC[c] = "c_try"
    /\ CanAcquire(items)
    /\ items' = Acquired(items)
    /\ pcC' = [pcC EXCEPT ![c] = "c_lock"]
    /\ UNCHANGED <<config, buffer, buffer_mutex, spaces, print_mutex, prodVars, iC,
                   itemC, mainVars, hist, log, snapshot>>

\* Variant of ConsumeTimeout: the failed wait hands a unit to spaces.
ConsumeTimeout_ReleasesSpace(c) ==
    /\ pcC[c] = "c_try"
    /\ ~CanAcquire(items)
    /\ spaces' = Released(spaces)
    /\ pcC' = [pcC EXCEPT ![c] = "c_timeout"]
    /\ UNCHANGED <<config, buffer, buffer_mutex, items, print_mutex, prodVars, iC,
                   itemC, mainVars, hist, log, snapshot>>

\* line 79, try_acquire_for gives up after MAX_WAIT_TIME_MS
ConsumeTimeout(c) ==
    /\ pcC[c] = "c_try"
    /\ ~CanAcquire(items)
    /\ pcC' = [pcC EXCEPT ![c] = "c_timeout"]
    /\ UNCHANGED <<config, buffer, sems, print_mutex, prodVars, iC, itemC, mainVars,
                   hist, log, snapshot>>

\* Variant of HandleConsumerTimeout: a timed-out attempt is retried, not counted.
HandleConsumerTimeout_Retry(c) ==
    /\ pcC[c] = "c_timeout"
    /\ \/ LockPrint(ConsumerThread(c)) /\ UNCHANGED pcC
       \/ UnlockPrint(ConsumerThread(c)) /\ pcC' = [pcC EXCEPT ![c] = "c_try"]
    /\ UNCHANGED <<config, buffer, sems, prodVars, iC, itemC, mainVars, hist, log,
                   snapshot>>

\* lines 80-81 (lines 50-54): the message, return -1; then line 169 (no sleep) and ++i
HandleConsumerTimeout(c) ==
    /\ pcC[c] = "c_timeout"
    /\ \/ LockPrint(ConsumerThread(c)) /\ UNCHANGED <<pcC, iC, timeouts>>
       \/ /\ UnlockPrint(ConsumerThread(c))
          /\ timeouts' = [timeouts EXCEPT ![c] = @ + 1]
          /\ iC' = [iC EXCEPT ![c] = @ + 1]
          /\ pcC' = [pcC EXCEPT ![c] = ConsumerLoop(iC[c] + 1)]
    /\ UNCHANGED <<config, buffer, sems, prodVars, itemC, mainVars, produced, consumed,
                   got, log, snapshot>>

\* line 84
ConsumeLock(c) ==
    /\ pcC[c] = "c_lock"
    /\ CanAcquire(buffer_mutex)
    /\ buffer_mutex' = Acquired(buffer_mutex)
    /\ pcC' = [pcC EXCEPT ![c] = "c_pop"]
    /\ UNCHANGED <<config, buffer, spaces, items, print_mutex, prodVars, iC, itemC,
                   mainVars, hist, log, snapshot>>

\* front() and pop() of an empty std::queue are undefined: any value may be read.
UndefinedInts == {Empty, 0}
Front(q) == IF q # <<>> THEN {Head(q)} ELSE UndefinedInts
\* Variant of Pop: leaves the front item in the queue.
Pop_Keep(q) == q
Pop(q) == IF q # <<>> THEN Tail(q) ELSE <<>>

\* lines 85-86
ConsumePop(c) ==
    /\ pcC[c] = "c_pop"
    /\ \E v \in Front(buffer) :
          /\ itemC' = [itemC EXCEPT ![c] = v]
          /\ consumed' = Append(consumed, v)
    /\ buffer' = Pop(buffer)
    /\ pcC' = [pcC EXCEPT ![c] = "c_print"]
    /\ UNCHANGED <<config, sems, print_mutex, prodVars, iC, mainVars, produced, got,
                   timeouts, log, snapshot>>

\* lines 87-89
ConsumePrint(c) ==
    /\ pcC[c] = "c_print"
    /\ \/ LockPrint(ConsumerThread(c)) /\ UNCHANGED <<pcC, logConsumed>>
       \/ /\ UnlockPrint(ConsumerThread(c))
          /\ logConsumed' = Append(logConsumed, itemC[c])
          /\ pcC' = [pcC EXCEPT ![c] = "c_unlock"]
    /\ UNCHANGED <<config, buffer, sems, prodVars, iC, itemC, mainVars, hist,
                   logProduced, snapshot>>

\* line 90
ConsumeUnlock(c) ==
    /\ pcC[c] = "c_unlock"
    /\ buffer_mutex' = Released(buffer_mutex)
    /\ pcC' = [pcC EXCEPT ![c] = "c_signal"]
    /\ UNCHANGED <<config, buffer, spaces, items, print_mutex, prodVars, iC, itemC,
                   mainVars, hist, log, snapshot>>

\* Variant of ConsumeSignal: returns without giving the unit back to spaces.
ConsumeSignal_NoRelease(c) ==
    /\ pcC[c] = "c_signal"
    /\ got' = [got EXCEPT ![c] = Append(@, itemC[c])]
    /\ itemC' = [itemC EXCEPT ![c] = Empty]
    /\ iC' = [iC EXCEPT ![c] = @ + 1]
    /\ pcC' = [pcC EXCEPT ![c] = ConsumerLoop(iC[c] + 1)]
    /\ UNCHANGED <<config, buffer, sems, print_mutex, prodVars, mainVars, produced,
                   consumed, timeouts, log, snapshot>>

\* lines 91-92: spaces.release(), return item; then lines 169-170 (the sleep when the
\* value is not -1), ++i and the loop test
ConsumeSignal(c) ==
    /\ pcC[c] = "c_signal"
    /\ spaces' = Released(spaces)
    /\ IF itemC[c] # Empty
         THEN got' = [got EXCEPT ![c] = Append(@, itemC[c])] /\ UNCHANGED timeouts
         ELSE timeouts' = [timeouts EXCEPT ![c] = @ + 1] /\ UNCHANGED got
    /\ itemC' = [itemC EXCEPT ![c] = Empty]
    /\ iC' = [iC EXCEPT ![c] = @ + 1]
    /\ pcC' = [pcC EXCEPT ![c] = ConsumerLoop(iC[c] + 1)]
    /\ UNCHANGED <<config, buffer, buffer_mutex, items, print_mutex, prodVars,
                   mainVars, produced, consumed, log, snapshot>>

\* lines 174-178, then the thread function returns
ConsumerFinished(c) ==
    /\ pcC[c] = "c_finished"
    /\ \/ LockPrint(ConsumerThread(c)) /\ UNCHANGED pcC
       \/ UnlockPrint(ConsumerThread(c)) /\ pcC' = [pcC EXCEPT ![c] = "done"]
    /\ UNCHANGED <<config, buffer, sems, prodVars, iC, itemC, mainVars, hist, log,
                   snapshot>>

ConsumerStep(c) ==
  c \in Consumers /\
  ( \/ ConsumerCreated(c)
    \/ ConsumeTryAcquire(c)
    \/ ConsumeTimeout(c)
    \/ HandleConsumerTimeout(c)
    \/ ConsumeLock(c)
    \/ ConsumePop(c)
    \/ ConsumePrint(c)
    \/ ConsumeUnlock(c)
    \/ ConsumeSignal(c)
    \/ ConsumerFinished(c) )

----------------------------------------------------------------------------
\* Principal::run and Buffer::showRemainingItems

\* Whether the iteration at index idx is the last one of a loop over count elements.
LoopDone(idx, count) == idx + 1 >= count

\* lines 196-198
SpawnProducer ==
    /\ mainpc = "m_spawnP"
    /\ pcP' = [pcP EXCEPT ![mainIdx + 1] = "p_created"]
    /\ IF LoopDone(mainIdx, NP)
         THEN mainpc' = "m_spawnC" /\ mainIdx' = 0
         ELSE mainpc' = mainpc /\ mainIdx' = mainIdx + 1
    /\ UNCHANGED <<config, buffer, sems, print_mutex, iP, consVars, hist, log, snapshot>>

\* lines 201-203
SpawnConsumer ==
    /\ mainpc = "m_spawnC"
    /\ pcC' = [pcC EXCEPT ![mainIdx + 1] = "c_created"]
    /\ IF LoopDone(mainIdx, NC)
         THEN mainpc' = "m_joinP" /\ mainIdx' = 0
         ELSE mainpc' = mainpc /\ mainIdx' = mainIdx + 1
    /\ UNCHANGED <<config, buffer, sems, print_mutex, prodVars, iC, itemC, hist, log,
                   snapshot>>

\* Variant of Joinable: join does not wait.
Joinable_NoWait(pc) == TRUE
\* thread::join returns once the thread's function has returned.
Joinable(pc) == pc = "done"

\* lines 206-208
JoinProducer ==
    /\ mainpc = "m_joinP"
    /\ Joinable(pcP[mainIdx + 1])
    /\ IF LoopDone(mainIdx, NP)
         THEN mainpc' = "m_joinC" /\ mainIdx' = 0
         ELSE mainpc' = mainpc /\ mainIdx' = mainIdx + 1
    /\ UNCHANGED <<config, buffer, sems, print_mutex, prodVars, consVars, hist, log,
                   snapshot>>

\* lines 211-213
JoinConsumer ==
    /\ mainpc = "m_joinC"
    /\ Joinable(pcC[mainIdx + 1])
    /\ IF LoopDone(mainIdx, NC)
         THEN mainpc' = "m_show_lock" /\ mainIdx' = 0
         ELSE mainpc' = mainpc /\ mainIdx' = mainIdx + 1
    /\ UNCHANGED <<config, buffer, sems, print_mutex, prodVars, consVars, hist, log,
                   snapshot>>

\* line 97
ShowLock ==
    /\ mainpc = "m_show_lock"
    /\ CanAcquire(buffer_mutex)
    /\ buffer_mutex' = Acquired(buffer_mutex)
    /\ mainpc' = "m_show_print"
    /\ UNCHANGED <<config, buffer, spaces, items, print_mutex, prodVars, consVars,
                   mainIdx, hist, log, snapshot>>

\* lines 98-110: the message lists the queue's items front to back
ShowPrint ==
    /\ mainpc = "m_show_print"
    /\ \/ LockPrint(MainThread) /\ UNCHANGED <<mainpc, snapshot>>
       \/ /\ UnlockPrint(MainThread)
          /\ snapshot' = buffer
          /\ mainpc' = "m_show_unlock"
    /\ UNCHANGED <<config, buffer, sems, prodVars, consVars, mainIdx, hist, log>>

\* line 111, then run returns
ShowUnlock ==
    /\ mainpc = "m_show_unlock"
    /\ buffer_mutex' = Released(buffer_mutex)
    /\ mainpc' = "m_done"
    /\ UNCHANGED <<config, buffer, spaces, items, print_mutex, prodVars, consVars,
                   mainIdx, hist, log, snapshot>>

MainStep ==
    \/ SpawnProducer
    \/ SpawnConsumer
    \/ JoinProducer
    \/ JoinConsumer
    \/ ShowLock
    \/ ShowPrint
    \/ ShowUnlock

Next ==
    \/ MainStep
    \/ \E p \in 1..MaxParam : ProducerStep(p)
    \/ \E c \in 1..MaxParam : ConsumerStep(c)

Spec == Init /\ [][Next]_vars

\* Every thread that can run eventually runs (preemptive OS scheduling), and a thread
\* blocked on a lock that is free again and again eventually gets it: the only lock
\* taken without bound is print_mutex, by a retrying producer that leaves it free for
\* PRODUCER_RETRY_DELAY_MS between two messages.
FairnessFor(threads) ==
    /\ SF_vars(MainStep)
    /\ \A p \in threads : SF_vars(ProducerStep(p))
    /\ \A c \in threads : SF_vars(ConsumerStep(c))

Fairness == FairnessFor(1..MaxParam)
FairSpec == Spec /\ Fairness

\* The fair runs of the configurations with capacity + N + NP + NC <= MaxLiveSize.
LiveInit ==
    \E cap \in 1..MaxLiveParam, n \in 1..MaxLiveParam,
       np \in 1..MaxLiveParam, nc \in 1..MaxLiveParam :
        /\ cap + n + np + nc <= MaxLiveSize
        /\ InitWith(cap, n, np, nc)
LiveSpec == LiveInit /\ [][Next]_vars /\ FairnessFor(1..MaxLiveParam)

TypeOK ==
    /\ buffer_mutex \in {0, 1}
    /\ spaces \in 0..capacity
    /\ items \in 0..capacity

----------------------------------------------------------------------------
\* Vocabulary of the properties

Range(q) == {q[k] : k \in DOMAIN q}
Count(x, q) == Cardinality({k \in DOMAIN q : q[k] = x})
IsPrefix(a, b) == Len(a) <= Len(b) /\ \A k \in DOMAIN a : a[k] = b[k]

\* A producer that has taken a unit of spaces and not yet pushed its item.
ProducerHoldsSlot(p) == pcP[p] \in {"p_lock", "p_push"}
\* A consumer that has popped an item and not yet given its unit back to spaces.
ConsumerHoldsSlot(c) == pcC[c] \in {"c_print", "c_unlock", "c_signal"}
SlotsInHand ==
    Cardinality({p \in Producers : ProducerHoldsSlot(p)})
  + Cardinality({c \in Consumers : ConsumerHoldsSlot(c)})

\* The items a consumer's calls of consume have taken from the queue: those already
\* returned and the one its running call has popped and is about to return.
Taken(c) == got[c] \o (IF ConsumerHoldsSlot(c) THEN <<itemC[c]>> ELSE <<>>)
TakenCount(x) == Count(x, consumed)
TakenByCalls(x) == {c \in Consumers : x \in Range(Taken(c))}

AllProducersDone == \A p \in Producers : pcP[p] = "done"
AllConsumersDone == \A c \in Consumers : pcC[c] = "done"
ShowPositions == {"m_show_lock", "m_show_print", "m_show_unlock", "m_done"}

----------------------------------------------------------------------------
\* C1 (as stated): in every reachable state spaces plus the number of queued items
\* equals the capacity.
C1_SpacesPlusQueueIsCapacity == spaces + Len(buffer) = capacity

\* C1 (amended): in every reachable state spaces, plus the number of queued items, plus
\* the number of threads that hold a slot unit (a producer between its acquire of
\* spaces and its push, a consumer between its pop and its release of spaces) equals
\* the capacity.
C1_SlotConservation == spaces + Len(buffer) + SlotsInHand = capacity

C1_Witness ==
    /\ spaces + Len(buffer) < capacity
    /\ \E p \in Producers : ProducerHoldsSlot(p)
    /\ \E c \in Consumers : ConsumerHoldsSlot(c)

\* C2: in every reachable state the queue holds at most capacity items.
C2_QueueWithinCapacity == Len(buffer) <= capacity

C2_Witness ==
    /\ Len(buffer) = capacity
    /\ \E p \in Producers : pcP[p] = "p_wait"
    /\ Len(consumed) >= 1

C4_FifoOrder ==
    /\ IsPrefix(consumed, produced)
    /\ (NP = 1 /\ NC = 1) =>
          \A k \in DOMAIN got[1] : got[1][k] = Item(1, k - 1)

C4_Witness ==
    /\ NP = 1 /\ NC = 1
    /\ Len(got[1]) >= 2
    /\ timeouts[1] >= 1

\* C5: every consumer thread eventually finishes, whatever the producers do, and a
\* finished consumer has made exactly N calls of consume, each of which returned an item
\* or timed out: successful consumes + timed-out attempts = N.
C5_ConsumersFinish ==
    /\ <>AllConsumersDone
    /\ [](\A c \in Consumers :
            pcC[c] \in {"c_finished", "done"} =>
                iC[c] = N /\ Len(got[c]) + timeouts[c] = N)

C5_Witness ==
    \E c \in Consumers :
        pcC[c] = "done" /\ Len(got[c]) >= 1 /\ timeouts[c] >= 1

\* The items of producer p among the pushed ones.
ItemsOf(p) == {k \in DOMAIN produced : \E i \in 0..(N - 1) : produced[k] = Item(p, i)}

\* C6 (as stated): with capacity 1 and 3 producers every run reaches a point where
\* NP*N items have been inserted.
C6_AllItemsProduced == <>((capacity = 1 /\ NP = 3) => Len(produced) = NP * N)

\* C6 (amended): with capacity 1 and 3 producers, a producer finishes only after all N
\* of its items have been inserted, never more than NP*N items are inserted, and a run
\* in which every producer finishes has had exactly NP*N items inserted.
C6_FinishedProducersInsertedAll ==
    (capacity = 1 /\ NP = 3) =>
        /\ \A p \in Producers :
              pcP[p] \in {"p_finished", "done"} => Cardinality(ItemsOf(p)) = N
        /\ \A p \in Producers : Cardinality(ItemsOf(p)) <= N
        /\ Len(produced) <= NP * N
        /\ AllProducersDone => Len(produced) = NP * N

C6_Witness ==
    /\ capacity = 1 /\ NP = 3
    /\ \E p \in Producers : pcP[p] = "done"
    /\ \E p \in Producers : pcP[p] = "p_wait" /\ print_mutex = ProducerThread(p)

SmallestRun == capacity = 1 /\ N = 1 /\ NP = 1 /\ NC = 1

\* C7 (as stated): with capacity = NP = NC = N = 1 every run is one successful produce
\* of item 100 followed by one successful consume of it, and the final snapshot is empty.
C7_OneProduceThenOneConsume ==
    (SmallestRun /\ mainpc = "m_done") =>
        /\ produced = <<Item(1, 0)>>
        /\ got[1] = <<Item(1, 0)>>
        /\ snapshot = <<>>

\* C7 (amended): with capacity = NP = NC = N = 1 every run that ends has exactly one
\* successful produce (item 100) and at most one successful consume: either the
\* consumer's single attempt returned 100 after the push and the final snapshot is
\* empty, or that attempt timed out and the final snapshot holds 100.
C7_OneProduceAtMostOneConsume ==
    SmallestRun =>
        /\ IsPrefix(produced, <<Item(1, 0)>>)
        /\ IsPrefix(consumed, produced)
        /\ Len(got[1]) + timeouts[1] <= 1
        /\ mainpc = "m_done" =>
              /\ produced = <<Item(1, 0)>>
              /\ \/ got[1] = <<Item(1, 0)>> /\ timeouts[1] = 0 /\ snapshot = <<>>
                 \/ got[1] = <<>> /\ timeouts[1] = 1 /\ snapshot = <<Item(1, 0)>>

C7_Witness ==
    SmallestRun /\ mainpc = "m_done" /\ got[1] = <<Item(1, 0)>> /\ snapshot = <<>>

\* C8: showRemainingItems is called only after every producer and every consumer thread
\* has returned; the snapshot is the final content of the queue; no push or pop happens
\* from the call on, and taking the snapshot leaves the queue and both counters as
\* they were.
ShownAfterJoins ==
    mainpc \in ShowPositions =>
        /\ AllProducersDone /\ AllConsumersDone
        /\ snapshot # NoSnapshot => snapshot = buffer
NothingMovesOnceShowing ==
    mainpc \in ShowPositions => UNCHANGED <<buffer, spaces, items, produced, consumed>>
SnapshotIsFinal == snapshot # NoSnapshot => snapshot' = snapshot
C8_SnapshotAfterJoins ==
    /\ []ShownAfterJoins
    /\ [][NothingMovesOnceShowing]_vars
    /\ [][SnapshotIsFinal]_vars

C8_Witness ==
    /\ mainpc = "m_done"
    /\ Len(snapshot) >= 1
    /\ Len(consumed) >= 1
    /\ snapshot = buffer

\* The steps of consumer c that belong to a call of consume that times out.
TimedOutCallStep(c) ==
    \/ pcC[c] = "c_try" /\ pcC'[c] = "c_timeout"
    \/ pcC[c] = "c_timeout" /\ print_mutex # print_mutex'
                            /\ ConsumerThread(c) \in {print_mutex, print_mutex'}

\* C9: a call of consume that times out returns -1 without acquiring buffer_mutex and
\* leaves the queue, spaces and items as they were; the consumer then goes on to its
\* next attempt (or, after its N-th attempt, to its end).
TimedOutCallIsInert ==
    \A c \in Consumers :
        TimedOutCallStep(c) =>
            /\ UNCHANGED <<buffer, buffer_mutex, spaces, items, consumed, got>>
            /\ pcC'[c] # "c_timeout" =>
                  /\ timeouts'[c] = timeouts[c] + 1
                  /\ iC'[c] = iC[c] + 1
                  /\ pcC'[c] = IF iC'[c] < N THEN "c_try" ELSE "c_finished"
C9_TimeoutLeavesBufferAlone == [][TimedOutCallIsInert]_vars

C9_Witness ==
    \E c \in Consumers :
        /\ pcC[c] = "c_try" /\ timeouts[c] >= 1
        /\ Len(buffer) >= 1

\* All consumers have finished and a producer is retrying on a buffer with no free slot.
JoinHangs ==
    /\ AllConsumersDone
    /\ spaces = 0
    /\ \E p \in Producers : pcP[p] \in {"p_try", "p_wait"}

\* C10: the coordinator's join can hang forever: a state is reachable in which all
\* consumers have finished while a producer still retries on a full buffer; from then on
\* that stays so, the coordinator is still joining the producers and showRemainingItems
\* has not been and is never reached.
HangBlocksShow == JoinHangs => mainpc = "m_joinP" /\ snapshot = NoSnapshot
HangPersists == JoinHangs => JoinHangs'
C10_JoinCanHang ==
    /\ []HangBlocksShow
    /\ [][HangPersists]_vars

C10_Witness ==
    /\ JoinHangs
    /\ Len(buffer) = capacity
    /\ \E p \in Producers : pcP[p] = "p_wait"

\* C11: conservation of capacity: in every reachable state spaces plus the queue length
\* is at most the capacity, spaces plus items is at most the capacity, and neither
\* counter is negative.
C11_CapacityConserved ==
    /\ spaces + Len(buffer) <= capacity
    /\ spaces + items <= capacity
    /\ spaces >= 0
    /\ items >= 0

C11_Witness ==
    /\ spaces + items < capacity
    /\ spaces + Len(buffer) < capacity
    /\ items >= 1

\* A producer that has pushed its item and not yet released a unit of items.
ProducerOwesItem(p) == pcP[p] \in {"p_print", "p_unlock", "p_signal"}
\* A consumer that has taken a unit of items and not yet popped.
ConsumerHoldsItem(c) == pcC[c] \in {"c_lock", "c_pop"}
ItemsInHand ==
    Cardinality({p \in Producers : ProducerOwesItem(p)})
  + Cardinality({c \in Consumers : ConsumerHoldsItem(c)})

\* C12 (as stated): in every reachable state the items counter equals the queue length.
C12_ItemsIsQueueLength == items = Len(buffer)

\* C12 (amended): in every reachable state the items counter, plus the number of
\* producers that have pushed and not yet released items, plus the number of consumers
\* that have acquired items and not yet popped, equals the queue length; so items never
\* exceeds the queue length.
C12_ItemConservation ==
    /\ items + ItemsInHand = Len(buffer)
    /\ items <= Len(buffer)

C12_Witness ==
    /\ items < Len(buffer)
    /\ \E p \in Producers : ProducerOwesItem(p)
    /\ \E c \in Consumers : ConsumerHoldsItem(c)

----------------------------------------------------------------------------
\* The item values alone: the loops of lines 134-138 of all producers, with the call of
\* produce left out, for the N and NP that main accepts up to the bounds below.
MaxItemN == 101
MaxItemNP == 2

ItemInit ==
    \E n \in 1..MaxItemN, np \in 1..MaxItemNP : InitWith(1, n, np, 1)

\* One iteration of the loop of producer p: item = id * 100 + i, then ++i.
NextItem(p) ==
    /\ p \in Producers
    /\ iP[p] < N
    /\ iP' = [iP EXCEPT ![p] = @ + 1]
    /\ UNCHANGED <<config, buffer, sems, print_mutex, pcP, consVars, mainVars, hist,
                   log, snapshot>>

ItemNext == \E p \in 1..MaxItemNP : NextItem(p)
ItemSpec == ItemInit /\ [][ItemNext]_vars

\* The item producer p builds in its current iteration (line 135).
CurrentItem(p) == Item(p, iP[p])

\* C13: every item value is unique: two producers never build the same value, whatever
\* their loop indices (for one producer, two indices give two values).
C13_ItemsUnique ==
    \A p \in Producers, q \in Producers :
        (iP[p] < N /\ iP[q] < N /\ CurrentItem(p) = CurrentItem(q)) => p = q

----------------------------------------------------------------------------
\* Threads between their acquire and their release of buffer_mutex.
ProducerInCS(p) == pcP[p] \in {"p_push", "p_print", "p_unlock"}
ConsumerInCS(c) == pcC[c] \in {"c_pop", "c_print", "c_unlock"}
MainInCS == mainpc \in {"m_show_print", "m_show_unlock"}
Holders ==
    {ProducerThread(p) : p \in {q \in Producers : ProducerInCS(q)}}
    \cup {ConsumerThread(c) : c \in {d \in Consumers : ConsumerInCS(d)}}
    \cup (IF MainInCS THEN {MainThread} ELSE {})

MutualExclusion ==
    /\ Cardinality(Holders) <= 1
    /\ buffer_mutex = 1 - Cardinality(Holders)

\* A change of the queue is the push or the pop of the one thread that holds
\* buffer_mutex before and after the step.
MutationUnderLock ==
    buffer' # buffer =>
        /\ Holders' = Holders
        /\ \/ \E p \in Producers :
                 /\ Holders = {ProducerThread(p)}
                 /\ pcP[p] = "p_push" /\ pcP'[p] = "p_print"
           \/ \E c \in Consumers :
                 /\ Holders = {ConsumerThread(c)}
                 /\ pcC[c] = "c_pop" /\ pcC'[c] = "c_print"

\* C14: the queue is mutated only by a thread that holds buffer_mutex, and at most one
\* thread (producer, consumer or the coordinator in showRemainingItems) holds it at any
\* time, so no two push/pop operations overlap.
C14_QueueMutatedUnderLock ==
    /\ []MutualExclusion
    /\ [][MutationUnderLock]_vars

C14_Witness ==
    /\ \E p \in Producers : pcP[p] = "p_lock"
    /\ \E c \in Consumers : ConsumerInCS(c)
    /\ Cardinality(Holders) = 1
    /\ buffer # <<>>

----------------------------------------------------------------------------
\* Positions at which a thread is inside, or about to enter, a print_mutex scope.
ProducerPrintPositions == {"p_created", "p_wait", "p_print", "p_finished"}
ConsumerPrintPositions == {"c_created", "c_timeout", "c_print", "c_finished"}

\* A worker that has been created and has not returned.
ProducerRunning(p) == pcP[p] \notin {"unstarted", "done"}
ConsumerRunning(c) == pcC[c] \notin {"unstarted", "done"}

\* A worker whose next statement is the acquire of a lock that another thread holds.
ProducerBlocked(p) ==
    \/ pcP[p] = "p_lock" /\ ~CanAcquire(buffer_mutex)
    \/ pcP[p] \in ProducerPrintPositions
         /\ print_mutex \notin {NoThread, ProducerThread(p)}
ConsumerBlocked(c) ==
    \/ pcC[c] = "c_lock" /\ ~CanAcquire(buffer_mutex)
    \/ pcC[c] \in ConsumerPrintPositions
         /\ print_mutex \notin {NoThread, ConsumerThread(c)}

\* print_mutex is held only inside a print scope, never at an acquire of buffer_mutex
\* or at a wait on spaces or items; the holder of buffer_mutex is at no such wait.
LockOrder ==
    /\ \A p \in Producers :
          /\ print_mutex = ProducerThread(p) => pcP[p] \in ProducerPrintPositions
          /\ ProducerInCS(p) => pcP[p] \notin {"p_try", "p_lock"}
    /\ \A c \in Consumers :
          /\ print_mutex = ConsumerThread(c) => pcC[c] \in ConsumerPrintPositions
          /\ ConsumerInCS(c) => pcC[c] \notin {"c_try", "c_lock"}
    /\ print_mutex = MainThread => mainpc = "m_show_print"
    /\ print_mutex \in {NoThread, MainThread}
         \cup {ProducerThread(p) : p \in Producers}
         \cup {ConsumerThread(c) : c \in Consumers}

\* While a worker is running, some running worker is not blocked on a lock.
NoLockDeadlock ==
    (\E p \in Producers : ProducerRunning(p)) \/ (\E c \in Consumers : ConsumerRunning(c))
    => \/ \E p \in Producers : ProducerRunning(p) /\ ~ProducerBlocked(p)
       \/ \E c \in Consumers : ConsumerRunning(c) /\ ~ConsumerBlocked(c)

\* C15: no deadlock among the workers on the locks: in no reachable state is every
\* unfinished worker blocked on buffer_mutex or print_mutex; a thread that holds
\* buffer_mutex never waits on spaces or items, print_mutex is never held while
\* buffer_mutex is acquired, and buffer_mutex, once held, is released again.
C15_NoLockDeadlock ==
    /\ []LockOrder
    /\ []NoLockDeadlock
    /\ (buffer_mutex = 0) ~> (buffer_mutex = 1)

C15_Witness ==
    \E p \in Producers, c \in Consumers :
        /\ pcP[p] = "p_print"
        /\ print_mutex = ConsumerThread(c)
        /\ buffer_mutex = 0

----------------------------------------------------------------------------
\* A step taken by producer p / by consumer c.
ProducerMoves(p) ==
    \/ pcP'[p] # pcP[p]
    \/ iP'[p] # iP[p]
    \/ print_mutex' # print_mutex /\ ProducerThread(p) \in {print_mutex, print_mutex'}
ConsumerMoves(c) ==
    \/ pcC'[c] # pcC[c]
    \/ iC'[c] # iC[c]
    \/ print_mutex' # print_mutex /\ ConsumerThread(c) \in {print_mutex, print_mutex'}

ProduceStepOrder(p) ==
    /\ (pcP[p] # "p_lock" /\ pcP'[p] = "p_lock") =>
          /\ pcP[p] = "p_try"
          /\ spaces' = spaces - 1
          /\ UNCHANGED <<buffer_mutex, items>>
    /\ (pcP[p] = "p_lock" /\ pcP'[p] # "p_lock") =>
          /\ buffer_mutex = 1 /\ buffer_mutex' = 0
          /\ ProducerInCS(p)'
          /\ UNCHANGED <<spaces, items>>
    /\ (ProducerInCS(p) /\ ProducerMoves(p)) => UNCHANGED <<spaces, items>>
    /\ (ProducerInCS(p) /\ ~ProducerInCS(p)') =>
          /\ buffer_mutex = 0 /\ buffer_mutex' = 1
          /\ pcP'[p] = "p_signal"
    /\ (pcP[p] = "p_signal" /\ ProducerMoves(p)) =>
          /\ items' = items + 1
          /\ UNCHANGED <<buffer_mutex, spaces>>

ConsumeStepOrder(c) ==
    /\ (pcC[c] # "c_lock" /\ pcC'[c] = "c_lock") =>
          /\ pcC[c] = "c_try"
          /\ items' = items - 1
          /\ UNCHANGED <<buffer_mutex, spaces>>
    /\ (pcC[c] = "c_lock" /\ pcC'[c] # "c_lock") =>
          /\ buffer_mutex = 1 /\ buffer_mutex' = 0
          /\ ConsumerInCS(c)'
          /\ UNCHANGED <<spaces, items>>
    /\ (ConsumerInCS(c) /\ ConsumerMoves(c)) => UNCHANGED <<spaces, items>>
    /\ (ConsumerInCS(c) /\ ~ConsumerInCS(c)') =>
          /\ buffer_mutex = 0 /\ buffer_mutex' = 1
          /\ pcC'[c] = "c_signal"
    /\ (pcC[c] = "c_signal" /\ ConsumerMoves(c)) =>
          /\ spaces' = spaces + 1
          /\ UNCHANGED <<buffer_mutex, items>>

\* The counters change by one unit only, and only in the four steps above.
CountersChangeOutsideLock ==
    /\ spaces' # spaces =>
          \/ \E p \in Producers : pcP[p] = "p_try" /\ pcP'[p] = "p_lock"
          \/ \E c \in Consumers : pcC[c] = "c_signal" /\ ConsumerMoves(c)
    /\ items' # items =>
          \/ \E c \in Consumers : pcC[c] = "c_try" /\ pcC'[c] = "c_lock"
          \/ \E p \in Producers : pcP[p] = "p_signal" /\ ProducerMoves(p)

StepOrder ==
    /\ \A p \in Producers : ProduceStepOrder(p)
    /\ \A c \in Consumers : ConsumeStepOrder(c)
    /\ CountersChangeOutsideLock

----------------------------------------------------------------------------
\* C17: consume never reads the front of an empty queue: a consumer that has acquired a
\* unit of items and holds buffer_mutex finds the queue non-empty; the items counter
\* plus the number of consumers that hold a unit and have not yet popped never exceeds
\* the queue length.
C17_FrontOfNonEmptyQueue ==
    /\ \A c \in Consumers : pcC[c] = "c_pop" => buffer # <<>>
    /\ items + Cardinality({c \in Consumers : ConsumerHoldsItem(c)}) <= Len(buffer)

C17_Witness ==
    /\ \E c \in Consumers : pcC[c] = "c_pop"
    /\ \E p \in Producers : ProducerOwesItem(p)
    /\ Len(buffer) >= 2

RECURSIVE SumUpTo(_, _)
SumUpTo(f, n) == IF n = 0 THEN 0 ELSE f[n] + SumUpTo(f, n - 1)

\* Calls of produce that have returned / calls of consume that have returned an item.
TotalProduces == SumUpTo(iP, NP)
TotalConsumes == SumUpTo([c \in Consumers |-> Len(got[c])], NC)

\* No thread is between its counter acquire and its matching counter release.
Quiescent ==
    /\ \A p \in Producers : ~ProducerHoldsSlot(p) /\ ~ProducerOwesItem(p)
    /\ \A c \in Consumers : ~ConsumerHoldsItem(c) /\ ~ConsumerHoldsSlot(c)

\* C18: in every quiescent state (in particular when showRemainingItems runs) items
\* equals the queue length, spaces plus the queue length equals the capacity, and the
\* queue length is the number of successful produces minus the number of successful
\* consumes.
C18_QuiescentCounts ==
    Quiescent =>
        /\ items = Len(buffer)
        /\ spaces + Len(buffer) = capacity
        /\ Len(buffer) = TotalProduces - TotalConsumes

C18_Witness ==
    /\ Quiescent
    /\ mainpc = "m_show_print"
    /\ Len(buffer) >= 1
    /\ TotalConsumes >= 1

\* C19: a failure diagnostic matches the real queue: when a wait of consume on items
\* fails the queue is empty, and when a wait of produce on spaces fails the queue holds
\* capacity items.
DiagnosticMatchesQueue ==
    /\ \A c \in Consumers :
          (pcC[c] = "c_try" /\ pcC'[c] = "c_timeout") => buffer = <<>>
    /\ \A p \in Producers :
          (pcP[p] = "p_try" /\ pcP'[p] = "p_wait") => Len(buffer) = capacity
C19_DiagnosticsMatchQueue == [][DiagnosticMatchesQueue]_vars

\* C20: the log reflects the queue order: the items of the "produjo" messages are, in
\* order, the items pushed (the message of the last push may still be pending), the
\* items of the "consumio" messages are, in order, the items popped, and at every point
\* the consumed messages are a prefix of the produced messages.
C20_LogFollowsQueue ==
    /\ IsPrefix(logProduced, produced)
    /\ Len(produced) - Len(logProduced) =
          Cardinality({p \in Producers : pcP[p] = "p_print"})
    /\ IsPrefix(logConsumed, consumed)
    /\ Len(consumed) - Len(logConsumed) =
          Cardinality({c \in Consumers : pcC[c] = "c_print"})
    /\ IsPrefix(logConsumed, logProduced)

C20_Witness ==
    /\ Len(logConsumed) >= 1
    /\ Len(logProduced) >= 2
    /\ \E c \in Consumers : pcC[c] = "c_print"
    /\ NP >= 2

====
